---- MODULE Spec2Model ----
(***************************************************************************)
(* QuizCraft: the quiz-submission workflow of backend/routes/history.js    *)
(* (POST /api/history): grading of an answer set against a quiz, then the  *)
(* three writes (history insert, user stats, quiz analytics).              *)
(*                                                                         *)
(* JavaScript values are tagged records: a string is a sequence of         *)
(* one-character strings, undefined / null / a number carry no payload.    *)
(* Numbers that are fractions (percentage, averageScore) are exact         *)
(* rationals num/den in lowest terms; NaN is 0/0.                          *)
(***************************************************************************)
EXTENDS Integers, Sequences, FiniteSets, TLC

\* ------------------------------------------------------------------ bounds
MaxQuestions == 2
MaxAnswers == 2
MaxReq == 2
MaxClock == 1
MaxPage == 2
MaxLimit == 2
MaxVector == 2

\* ------------------------------------------------------- JavaScript values
Undef == [k |-> "undefined", v |-> <<>>]
Null == [k |-> "null", v |-> <<>>]
Num == [k |-> "number", v |-> <<>>]
Str(s) == [k |-> "string", v |-> s]
TypeError == [k |-> "TypeError", v |-> <<>>]

\* a finite number whose value matters (a time, a limit), and NaN
NumberOf(n) == [k |-> "number", v |-> <<n>>]

NaNValue == [k |-> "NaN", v |-> <<>>]

\* String.prototype.toLowerCase on the model's alphabet
LowerChar(c) == IF c = "P" THEN "p" ELSE IF c = "T" THEN "t" ELSE c

ToLowerCase(s) == [i \in 1..Len(s) |-> LowerChar(s[i])]

RECURSIVE TrimStart(_)
TrimStart(s) == IF s # <<>> /\ Head(s) = " " THEN TrimStart(Tail(s)) ELSE s

RECURSIVE TrimEnd(_)
TrimEnd(s) ==
    IF s # <<>> /\ s[Len(s)] = " " THEN TrimEnd(SubSeq(s, 1, Len(s) - 1)) ELSE s

\* String.prototype.trim
Trim(s) == TrimEnd(TrimStart(s))

\* x.toLowerCase().trim(), without the optional chaining
LowerTrimNoChain(x) ==
    IF x.k = "string" THEN Str(Trim(ToLowerCase(x.v))) ELSE TypeError

\* x?.toLowerCase(), without the trim
LowerNoTrim(x) ==
    IF x.k \in {"undefined", "null"} THEN Undef
    ELSE IF x.k = "string" THEN Str(ToLowerCase(x.v))
    ELSE TypeError

\* x?.toLowerCase().trim(): undefined for undefined/null, TypeError when x
\* has no toLowerCase method
LowerTrim(x) ==
    IF x.k \in {"undefined", "null"} THEN Undef
    ELSE IF x.k = "string" THEN Str(Trim(ToLowerCase(x.v)))
    ELSE TypeError

\* ---------------------------------------------------------------- numbers
RECURSIVE Gcd(_, _)
Gcd(a, b) == IF b = 0 THEN a ELSE Gcd(b, a % b)

NaN == [num |-> 0, den |-> 0]

\* n/d in lowest terms, 0/0 is NaN (d >= 0, n >= 0)
Rat(n, d) ==
    IF d = 0 THEN NaN
    ELSE LET g == Gcd(n, d) IN [num |-> n \div g, den |-> d \div g]

IsNaN(x) == x.den = 0

RatAdd(x, y) ==
    IF IsNaN(x) \/ IsNaN(y) THEN NaN
    ELSE Rat(x.num * y.den + y.num * x.den, x.den * y.den)

RatMulInt(x, n) == IF IsNaN(x) THEN NaN ELSE Rat(x.num * n, x.den)

RatDivInt(x, n) == IF IsNaN(x) THEN NaN ELSE Rat(x.num, x.den * n)

\* x >= n, false when x is NaN
RatGeqInt(x, n) == ~IsNaN(x) /\ x.num >= n * x.den

\* ---------------------------------------------------------------- grading
\* a find that keeps the last flagged option instead of the first
RECURSIVE FindLastCorrectOption(_)
FindLastCorrectOption(options) ==
    IF options = <<>> THEN Undef
    ELSE IF options[Len(options)].isCorrect THEN Str(options[Len(options)].text)
    ELSE FindLastCorrectOption(SubSeq(options, 1, Len(options) - 1))

\* question.options.find(o => o.isCorrect): the first flagged option
RECURSIVE FindCorrectOption(_)
FindCorrectOption(options) ==
    IF options = <<>> THEN Undef
    ELSE IF Head(options).isCorrect THEN Str(Head(options).text)
    ELSE FindCorrectOption(Tail(options))

\* answers?.[index], index counted from 1 here
AnswerAt(answers, i) ==
    IF answers.k \in {"undefined", "null"} THEN Undef
    ELSE IF i \in 1..Len(answers.v) THEN answers.v[i]
    ELSE Undef

\* a callback that folds case and trims for true-false questions too
IsCorrectFolding(question, userAnswer) ==
    IF question.type = "mcq"
    THEN [threw |-> FALSE, isCorrect |-> userAnswer = FindCorrectOption(question.options)]
    ELSE LET a == LowerTrim(userAnswer)
             b == LowerTrim(question.correctAnswer)
         IN  IF a = TypeError \/ b = TypeError
             THEN [threw |-> TRUE, isCorrect |-> FALSE]
             ELSE [threw |-> FALSE, isCorrect |-> a = b]

\* the body of the forEach callback up to isCorrect; threw when the
\* callback throws a TypeError
IsCorrect(question, userAnswer) ==
    IF question.type = "mcq"
    THEN [threw |-> FALSE, isCorrect |-> userAnswer = FindCorrectOption(question.options)]
    ELSE IF question.type = "true-false"
    THEN [threw |-> FALSE, isCorrect |-> userAnswer = question.correctAnswer]
    ELSE LET a == LowerTrim(userAnswer)
             b == LowerTrim(question.correctAnswer)
         IN  IF a = TypeError \/ b = TypeError
             THEN [threw |-> TRUE, isCorrect |-> FALSE]
             ELSE [threw |-> FALSE, isCorrect |-> a = b]

\* a breakdown entry that earns the points whatever isCorrect is
DetailedAnswerFullPoints(question, i, userAnswer, isCorrect) ==
    [questionId |-> i,
     userAnswer |-> userAnswer,
     isCorrect |-> isCorrect,
     pointsEarned |-> question.points,
     correctAnswer |-> question.correctAnswer]

DetailedAnswer(question, i, userAnswer, isCorrect) ==
    [questionId |-> i,
     userAnswer |-> userAnswer,
     isCorrect |-> isCorrect,
     pointsEarned |-> IF isCorrect THEN question.points ELSE 0,
     correctAnswer |-> question.correctAnswer]

NoGrade == [threw |-> FALSE, correctAnswers |-> 0, score |-> 0, detailedAnswers |-> <<>>]

\* a loop that adds one to the score where it should add the points
RECURSIVE GradeUpToCounting(_, _, _)
GradeUpToCounting(questions, answers, n) ==
    IF n = 0 THEN NoGrade
    ELSE LET prev == GradeUpToCounting(questions, answers, n - 1)
             question == questions[n]
             userAnswer == AnswerAt(answers, n)
             c == IsCorrect(question, userAnswer)
         IN  IF prev.threw THEN prev
             ELSE IF c.threw THEN [prev EXCEPT !.threw = TRUE]
             ELSE [threw |-> FALSE,
                   correctAnswers |-> prev.correctAnswers + (IF c.isCorrect THEN 1 ELSE 0),
                   score |-> prev.score + (IF c.isCorrect THEN 1 ELSE 0),
                   detailedAnswers |->
                       Append(prev.detailedAnswers,
                              DetailedAnswer(question, n, userAnswer, c.isCorrect))]

\* quiz.questions.forEach(...): folds the questions 1..n in order; a throw
\* inside the callback ends the loop and leaves the handler's try block
RECURSIVE GradeUpTo(_, _, _)
GradeUpTo(questions, answers, n) ==
    IF n = 0 THEN NoGrade
    ELSE LET prev == GradeUpTo(questions, answers, n - 1)
             question == questions[n]
             userAnswer == AnswerAt(answers, n)
             c == IsCorrect(question, userAnswer)
         IN  IF prev.threw THEN prev
             ELSE IF c.threw THEN [prev EXCEPT !.threw = TRUE]
             ELSE [threw |-> FALSE,
                   correctAnswers |-> prev.correctAnswers + (IF c.isCorrect THEN 1 ELSE 0),
                   score |-> prev.score + (IF c.isCorrect THEN question.points ELSE 0),
                   detailedAnswers |->
                       Append(prev.detailedAnswers,
                              DetailedAnswer(question, n, userAnswer, c.isCorrect))]

GradeLoop(questions, answers) == GradeUpTo(questions, answers, Len(questions))

\* (correctAnswers / quiz.questions.length) * 100
Percentage(correctAnswers, length) == RatMulInt(Rat(correctAnswers, length), 100)

\* percentage > quiz.passingScore
PassedStrict(percentage, passingScore) ==
    ~IsNaN(percentage) /\ percentage.num > passingScore * percentage.den

\* percentage >= quiz.passingScore
Passed(percentage, passingScore) == RatGeqInt(percentage, passingScore)

RECURSIVE SumPoints(_)
SumPoints(questions) ==
    IF questions = <<>> THEN 0 ELSE Head(questions).points + SumPoints(Tail(questions))

\* a grading whose percentage is the share of the points, not of the questions
GradeWeighted(quiz, answers) ==
    LET g == GradeLoop(quiz.questions, answers)
        percentage == RatMulInt(Rat(g.score, SumPoints(quiz.questions)), 100)
    IN  [threw |-> g.threw,
         score |-> g.score,
         correctAnswers |-> g.correctAnswers,
         totalQuestions |-> Len(quiz.questions),
         percentage |-> percentage,
         passed |-> Passed(percentage, quiz.passingScore),
         detailedAnswers |-> g.detailedAnswers]

\* lines 177-205: the grading of one request body against a loaded quiz
Grade(quiz, answers) ==
    LET g == GradeLoop(quiz.questions, answers)
        percentage == Percentage(g.correctAnswers, Len(quiz.questions))
    IN  [threw |-> g.threw,
         score |-> g.score,
         correctAnswers |-> g.correctAnswers,
         totalQuestions |-> Len(quiz.questions),
         percentage |-> percentage,
         passed |-> Passed(percentage, quiz.passingScore),
         detailedAnswers |-> g.detailedAnswers]

\* ------------------------------------------------------------ input pools
SeqsUpTo(S, n) == UNION {[1..m -> S] : m \in 0..n}

Array(s) == [k |-> "array", v |-> s]

Option(text, flag) == [text |-> text, isCorrect |-> flag]

Question(type, options, correctAnswer, points) ==
    [type |-> type, options |-> options, correctAnswer |-> correctAnswer, points |-> points]

QMcq == Question("mcq", <<Option(<<"c">>, FALSE), Option(<<"b">>, TRUE), Option(<<"P">>, TRUE)>>, Undef, 10)
QMcqNoFlag == Question("mcq", <<Option(<<"c">>, FALSE)>>, Undef, 5)
QTrueFalse == Question("true-false", <<>>, Str(<<"P">>), 5)
QShort == Question("short-answer", <<>>, Str(<<"P">>), 5)
QShortNoAnswer == Question("short-answer", <<>>, Undef, 10)
QOther == Question("essay", <<>>, Str(<<" ", "p", " ">>), 10)

QuestionPool == {QMcq, QMcqNoFlag, QTrueFalse, QShort, QShortNoAnswer, QOther}

AnswerPool ==
    {Undef, Null, Num, Str(<<"b">>), Str(<<"c">>), Str(<<"P">>), Str(<<" ", "p", " ">>)}

PassingScores == {60, 100}

\* req.body.answers: absent, or an array of entries
AnswerSets(n) == {Undef} \cup {Array(s) : s \in SeqsUpTo(AnswerPool, n)}

\* ------------------------------------------------------------------ state
Users == {"u1", "u2"}

\* the quizzes collection: q0 has no questions; "qx" names no document
QuizDefs ==
    [q1 |-> [questions |-> <<QMcq, QShort>>, passingScore |-> 60],
     q0 |-> [questions |-> <<>>, passingScore |-> 60]]

QuizIds == DOMAIN QuizDefs

RequestedQuizIds == QuizIds \cup {"qx"}

\* request bodies sent to POST /api/history
BodyAnswers ==
    {Array(<<Str(<<"b">>), Str(<<" ", "p", " ">>)>>),
     Array(<<Str(<<"b">>)>>),
     Array(<<Num, Num>>)}

Requests == 1..MaxReq

VARIABLES
    users,      \* users collection: points, usage.quizzesTaken, usage.lastQuizDate
    quizzes,    \* quizzes collection: analytics.totalAttempts, analytics.averageScore
    histories,  \* quizhistories collection: the set of stored documents
    reqs,       \* one POST /api/history request each: position, loaded documents,
                \*   response (status, message, the keys of data; data.historyId is historyId)
    now,        \* the server clock
    gquiz,      \* grading alone: the quiz,
    ganswers,   \*   the answers,
    gresult,    \*   the result,
    gpc,        \*   and whether grading ran
    timeLimit,  \* quizzes collection: timeLimit (minutes) of each quiz
    response,   \* GET /api/history/:id: the request and its response, when it
                \*   was the GET served last
    listing,    \* GET /api/history: the pages one user has fetched with one
                \*   limit, when the GETs served last were these
    vectorResults,  \* what embeddingService.findSimilarQuizzes yields when called
    searchResponse  \* the search request served last and its response

vars == <<users, quizzes, histories, reqs, now, gquiz, ganswers, gresult, gpc,
          timeLimit, response, listing, vectorResults, searchResponse>>

NoResult ==
    [threw |-> FALSE, score |-> 0, correctAnswers |-> 0, totalQuestions |-> 0,
     percentage |-> Rat(0, 1), passed |-> FALSE, detailedAnswers |-> <<>>]

NoDoc == [totalAttempts |-> 0, averageScore |-> Rat(0, 1)]

IdleRequest ==
    [pc |-> "idle", user |-> "none", quizId |-> "none", userPoints |-> 0,
     quizDoc |-> NoDoc, grade |-> NoResult, historyId |-> 0, status |-> 0,
     message |-> "", data |-> {}]

InitStore ==
    /\ users = [u \in Users |-> [points |-> 0, quizzesTaken |-> 0, lastQuizDate |-> 0]]
    /\ quizzes = [q \in QuizIds |-> [totalAttempts |-> 0, averageScore |-> Rat(0, 1)]]
    /\ histories = {}
    /\ reqs = [r \in Requests |-> IdleRequest]
    /\ now = 1

NoResponse == [route |-> "none"]

NoListing == [user |-> "none"]

\* no GET and no search request has been served
InitQueries ==
    /\ response = NoResponse
    /\ listing = NoListing
    /\ vectorResults = <<>>
    /\ searchResponse = NoResponse

InitGrading ==
    /\ gquiz = QuizDefs.q1
    /\ ganswers = Undef
    /\ gresult = NoResult
    /\ gpc = "off"

Init ==
    /\ InitStore
    /\ InitGrading
    /\ timeLimit = [q \in QuizIds |-> NumberOf(1)]
    /\ InitQueries

gvars == <<gquiz, ganswers, gresult, gpc>>

qvars == <<timeLimit, response, listing, vectorResults, searchResponse>>

InFlight(r) == reqs[r].pc \in {"find", "create", "usage", "points", "analytics"}

\* ---------------------------------------------------------------- actions
\* the protect middleware loads req.user, then the handler is entered;
\* requests are numbered in order of arrival and, the users being
\* interchangeable before the first request, the first one is u1's
Start(r) ==
    /\ reqs[r].pc = "idle"
    /\ \A o \in Requests : o < r => reqs[o].pc # "idle"
    /\ \E u \in (IF r = 1 THEN {"u1"} ELSE Users) :
           reqs' = [reqs EXCEPT ![r] =
                       [@ EXCEPT !.pc = "find", !.user = u, !.userPoints = users[u].points]]
    /\ UNCHANGED <<users, quizzes, histories, now, gvars, qvars>>

\* a handler without the 404 return: quiz.questions on a null quiz throws
\* and the catch block answers 500
FindQuizNoGuard(r) ==
    /\ reqs[r].pc = "find"
    /\ \E quizId \in RequestedQuizIds, answers \in BodyAnswers :
           LET g == Grade(QuizDefs[quizId], answers)
           IN  IF quizId \notin QuizIds \/ g.threw
               THEN reqs' = [reqs EXCEPT ![r] =
                                [IdleRequest EXCEPT !.pc = "failed",
                                                    !.user = reqs[r].user,
                                                    !.quizId = quizId,
                                                    !.status = 500,
                                                    !.message = "Failed to save history"]]
               ELSE reqs' = [reqs EXCEPT ![r] =
                                [@ EXCEPT !.pc = "create", !.quizId = quizId,
                                          !.quizDoc = quizzes[quizId],
                                          !.grade = g]]
    /\ UNCHANGED <<users, quizzes, histories, now, gvars, qvars>>

\* a handler whose score accumulator starts from the stored points of the
\* user instead of 0
FindQuizSharedScore(r) ==
    /\ reqs[r].pc = "find"
    /\ \E quizId \in RequestedQuizIds, answers \in BodyAnswers :
           IF quizId \notin QuizIds
           THEN reqs' = [reqs EXCEPT ![r] =
                            [IdleRequest EXCEPT !.pc = "notfound", !.user = reqs[r].user,
                                                !.quizId = quizId, !.status = 404,
                                                !.message = "Quiz not found"]]
           ELSE LET g == Grade(QuizDefs[quizId], answers)
                IN  IF g.threw
                    THEN reqs' = [reqs EXCEPT ![r] =
                                     [IdleRequest EXCEPT !.pc = "failed",
                                                         !.user = reqs[r].user,
                                                         !.quizId = quizId,
                                                         !.status = 500,
                                                         !.message = "Failed to save history"]]
                    ELSE reqs' = [reqs EXCEPT ![r] =
                                     [@ EXCEPT !.pc = "create", !.quizId = quizId,
                                               !.quizDoc = quizzes[quizId],
                                               !.grade = [g EXCEPT !.score =
                                                             @ + users[reqs[r].user].points]]]
    /\ UNCHANGED <<users, quizzes, histories, now, gvars, qvars>>

\* lines 173-205: Quiz.findById, the 404 return, and the synchronous grading
\* up to the call of QuizHistory.create
FindQuiz(r) ==
    /\ reqs[r].pc = "find"
    /\ \E quizId \in RequestedQuizIds, answers \in BodyAnswers :
           IF quizId \notin QuizIds
           THEN reqs' = [reqs EXCEPT ![r] =
                            [IdleRequest EXCEPT !.pc = "notfound", !.user = reqs[r].user,
                                                !.quizId = quizId, !.status = 404,
                                                !.message = "Quiz not found"]]
           ELSE LET g == Grade(QuizDefs[quizId], answers)
                IN  IF g.threw
                    THEN reqs' = [reqs EXCEPT ![r] =
                                     [IdleRequest EXCEPT !.pc = "failed",
                                                         !.user = reqs[r].user,
                                                         !.quizId = quizId,
                                                         !.status = 500,
                                                         !.message = "Failed to save history"]]
                    ELSE reqs' = [reqs EXCEPT ![r] =
                                     [@ EXCEPT !.pc = "create", !.quizId = quizId,
                                               !.quizDoc = quizzes[quizId],
                                               !.grade = g]]
    /\ UNCHANGED <<users, quizzes, histories, now, gvars, qvars>>

HistoryRecord(r) ==
    LET q == reqs[r] IN
    [_id |-> r,
     user |-> q.user,
     quiz |-> q.quizId,
     answers |-> q.grade.detailedAnswers,
     score |-> q.grade.score,
     percentage |-> q.grade.percentage,
     totalQuestions |-> q.grade.totalQuestions,
     correctAnswers |-> q.grade.correctAnswers,
     incorrectAnswers |-> q.grade.totalQuestions - q.grade.correctAnswers,
     timeTaken |-> NumberOf(0),
     passed |-> q.grade.passed]

\* lines 207-218: QuizHistory.create succeeds; the document's _id is made
\* by the request itself (here: the request's number)
CreateHistory(r) ==
    /\ reqs[r].pc = "create"
    /\ histories' = histories \cup {HistoryRecord(r)}
    /\ reqs' = [reqs EXCEPT ![r] = [@ EXCEPT !.pc = "usage", !.historyId = r]]
    /\ UNCHANGED <<users, quizzes, now, gvars, qvars>>

\* line 220: req.user.incrementUsage('taken') succeeds
IncrementUsage(r) ==
    /\ reqs[r].pc = "usage"
    /\ users' = [users EXCEPT ![reqs[r].user] =
                    [@ EXCEPT !.quizzesTaken = @ + 1, !.lastQuizDate = now]]
    /\ reqs' = [reqs EXCEPT ![r] = [@ EXCEPT !.pc = "points"]]
    /\ UNCHANGED <<quizzes, histories, now, gvars, qvars>>

\* a save that stores the score in place of the sum
SavePointsOverwrite(r) ==
    /\ reqs[r].pc = "points"
    /\ users' = [users EXCEPT ![reqs[r].user] = [@ EXCEPT !.points = reqs[r].grade.score]]
    /\ reqs' = [reqs EXCEPT ![r] = [@ EXCEPT !.pc = "analytics"]]
    /\ UNCHANGED <<quizzes, histories, now, gvars, qvars>>

\* line 221: req.user.points += score on the request's own document, then
\* req.user.save() stores the document's points
SavePoints(r) ==
    /\ reqs[r].pc = "points"
    /\ LET points == reqs[r].userPoints + reqs[r].grade.score
       IN  /\ users' = [users EXCEPT ![reqs[r].user] = [@ EXCEPT !.points = points]]
           /\ reqs' = [reqs EXCEPT ![r] = [@ EXCEPT !.pc = "analytics", !.userPoints = points]]
    /\ UNCHANGED <<quizzes, histories, now, gvars, qvars>>

\* a running mean that weights the old average by the new count
UpdateAnalyticsNewCount(doc, percentage) ==
    LET totalAttempts == doc.totalAttempts + 1
    IN  [totalAttempts |-> totalAttempts,
         averageScore |->
             RatDivInt(RatAdd(RatMulInt(doc.averageScore, totalAttempts), percentage),
                       totalAttempts)]

\* lines 223-224 on the loaded quiz document
UpdateAnalytics(doc, percentage) ==
    LET totalAttempts == doc.totalAttempts + 1
    IN  [totalAttempts |-> totalAttempts,
         averageScore |->
             RatDivInt(RatAdd(RatMulInt(doc.averageScore, totalAttempts - 1), percentage),
                       totalAttempts)]

\* lines 223-227: the analytics update on the request's own quiz document,
\* quiz.save() stores it, and the 201 response
SaveQuiz(r) ==
    /\ reqs[r].pc = "analytics"
    /\ LET doc == UpdateAnalytics(reqs[r].quizDoc, reqs[r].grade.percentage)
       IN  /\ quizzes' = [quizzes EXCEPT ![reqs[r].quizId] = doc]
           /\ reqs' = [reqs EXCEPT ![r] =
                          [IdleRequest EXCEPT !.pc = "done", !.status = 201,
                                              !.message = "Attempt saved",
                                              !.data = {"historyId"},
                                              !.user = reqs[r].user,
                                              !.quizId = reqs[r].quizId,
                                              !.historyId = reqs[r].historyId]]
    /\ UNCHANGED <<users, histories, now, gvars, qvars>>

\* a catch block that answers with the message of the error it caught (here:
\* the name of the write that rejected)
CatchLeaking(r) ==
    /\ reqs[r].pc \in {"create", "usage", "points", "analytics"}
    /\ reqs' = [reqs EXCEPT ![r] =
                   [IdleRequest EXCEPT !.pc = "failed", !.status = 500,
                                       !.message = reqs[r].pc,
                                       !.user = reqs[r].user,
                                       !.quizId = reqs[r].quizId,
                                       !.historyId = reqs[r].historyId]]
    /\ UNCHANGED <<users, quizzes, histories, now, gvars, qvars>>

\* a handler that starts its writes again after one of them rejected
CatchRetrying(r) ==
    /\ reqs[r].pc \in {"create", "usage", "points", "analytics"}
    /\ reqs' = [reqs EXCEPT ![r] = [@ EXCEPT !.pc = "create"]]
    /\ UNCHANGED <<users, quizzes, histories, now, gvars, qvars>>

\* lines 228-231: one of the awaited writes rejects; the catch block answers 500
Catch(r) ==
    /\ reqs[r].pc \in {"create", "usage", "points", "analytics"}
    /\ reqs' = [reqs EXCEPT ![r] =
                   [IdleRequest EXCEPT !.pc = "failed", !.status = 500,
                                       !.message = "Failed to save history",
                                       !.user = reqs[r].user,
                                       !.quizId = reqs[r].quizId,
                                       !.historyId = reqs[r].historyId]]
    /\ UNCHANGED <<users, quizzes, histories, now, gvars, qvars>>

\* time passes; the clock is read by incrementUsage alone, so only the time
\* that passes before such a read is kept
Tick ==
    /\ now <= MaxClock
    /\ \E r \in Requests : reqs[r].pc = "usage"
    /\ now' = now + 1
    /\ UNCHANGED <<users, quizzes, histories, reqs, gvars, qvars>>

Next ==
    \/ \E r \in Requests : Start(r)
    \/ \E r \in Requests : FindQuiz(r)
    \/ \E r \in Requests : CreateHistory(r)
    \/ \E r \in Requests : IncrementUsage(r)
    \/ \E r \in Requests : SavePoints(r)
    \/ \E r \in Requests : SaveQuiz(r)
    \/ \E r \in Requests : Catch(r)
    \/ Tick

Spec == Init /\ [][Next]_vars

\* requests served one after the other: a request starts only when no other
\* request is between its start and its response
StartSeq(r) ==
    /\ \A o \in Requests : ~InFlight(o)
    /\ Start(r)

NextSeq ==
    \/ \E r \in Requests : StartSeq(r)
    \/ \E r \in Requests : FindQuiz(r)
    \/ \E r \in Requests : CreateHistory(r)
    \/ \E r \in Requests : IncrementUsage(r)
    \/ \E r \in Requests : SavePoints(r)
    \/ \E r \in Requests : SaveQuiz(r)
    \/ \E r \in Requests : Catch(r)
    \/ Tick

SpecSeq == Init /\ [][NextSeq]_vars

\* the storage never answers the call a request is awaiting: lines 174-225
\* await with no timeout, so the request stays at that call
NeverAnswers(r) ==
    /\ InFlight(r)
    /\ reqs' = [reqs EXCEPT ![r] =
                   [IdleRequest EXCEPT !.pc = "hung", !.user = reqs[r].user,
                                       !.quizId = reqs[r].quizId,
                                       !.historyId = reqs[r].historyId]]
    /\ UNCHANGED <<users, quizzes, histories, now, gvars, qvars>>

NextLive ==
    \/ NextSeq
    \/ \E r \in Requests : NeverAnswers(r)

\* every awaited call is settled by the storage in one of three ways (it
\* answers, it rejects, it stays silent), and the event loop then runs the
\* handler's next step
Settle(r) ==
    \/ FindQuiz(r) \/ CreateHistory(r) \/ IncrementUsage(r) \/ SavePoints(r)
    \/ SaveQuiz(r) \/ Catch(r) \/ NeverAnswers(r)

SpecLive == Init /\ [][NextLive]_vars /\ \A r \in Requests : WF_vars(Settle(r))

\* grading alone, on every quiz and answer set of the pools
InitGrade ==
    /\ InitStore
    /\ gquiz \in [questions : SeqsUpTo(QuestionPool, MaxQuestions), passingScore : PassingScores]
    /\ ganswers \in AnswerSets(MaxAnswers)
    /\ gresult = NoResult
    /\ gpc = "input"
    /\ timeLimit = [q \in QuizIds |-> NumberOf(1)]
    /\ InitQueries

GradeStep ==
    /\ gpc = "input"
    /\ gresult' = Grade(gquiz, ganswers)
    /\ gpc' = "graded"
    /\ UNCHANGED <<users, quizzes, histories, reqs, now, gquiz, ganswers, qvars>>

NextGrade == GradeStep

SpecGrade == InitGrade /\ [][NextGrade]_vars

\* ------------------------------------------------ GET /api/history routes
\* Number(x) of lines 118-119 on what a stored Number field can hold
ToNumber(x) ==
    IF x.k = "number" THEN x
    ELSE IF x.k = "null" THEN NumberOf(0)
    ELSE NaNValue

IsFinite(x) == x.k = "number" /\ Len(x.v) = 1

\* req.user.role as the protect middleware loads it
Roles == [u1 |-> "student", u2 |-> "admin"]

\* documents of the quizhistories collection as earlier submissions stored
\* them, with the createdAt and completedAt the schema adds on insert
StoredHistory(id, user, quiz, timeTaken, createdAt) ==
    [_id |-> id, user |-> user, quiz |-> quiz, score |-> 10,
     percentage |-> Rat(50, 1), passed |-> FALSE, timeTaken |-> timeTaken,
     createdAt |-> createdAt, completedAt |-> createdAt]

TimeTakenPool == {Undef, Null, NumberOf(0 - 1), NumberOf(58), NumberOf(59),
                  NumberOf(60), NumberOf(61)}

TimeLimitPool == {Undef, NumberOf(0), NumberOf(1)}

\* three attempts of u1 (two of them made in the same instant, one on a quiz
\* that was deleted since) and one of u2
StoredHistories(timeTaken) ==
    {StoredHistory(101, "u1", "q1", timeTaken, 0),
     StoredHistory(102, "u1", "qx", NumberOf(0), 1),
     StoredHistory(103, "u1", "q0", NumberOf(58), 0),
     StoredHistory(104, "u2", "q1", NumberOf(59), 1)}

\* req.params.id: a well-formed ObjectId string, or a string that is none
ObjectId(n) == [wellFormed |-> TRUE, n |-> n]

Malformed == [wellFormed |-> FALSE, n |-> 0]

ParamIds == {ObjectId(n) : n \in {1, 101, 102, 103, 104, 999}} \cup {Malformed}

\* the state the GET routes are served in, but for the stored histories and
\* the quizzes' time limits
InitServing ==
    /\ users = [u \in Users |-> [points |-> 0, quizzesTaken |-> 0, lastQuizDate |-> 0]]
    /\ quizzes = [q \in QuizIds |-> [totalAttempts |-> 0, averageScore |-> Rat(0, 1)]]
    /\ reqs = [r \in Requests |-> IdleRequest]
    /\ now = 1
    /\ InitGrading
    /\ InitQueries

\* GET /api/history/:id on every time limit and time taken of the pools
InitDetail ==
    /\ InitServing
    /\ timeLimit \in [QuizIds -> TimeLimitPool]
    /\ \E timeTaken \in TimeTakenPool : histories = StoredHistories(timeTaken)

\* GET /api/history on every part of the stored histories
InitList ==
    /\ InitServing
    /\ timeLimit = [q \in QuizIds |-> NumberOf(1)]
    /\ histories \in SUBSET StoredHistories(NumberOf(58))

\* the GET routes next to a submit, on one store
InitReadWrite ==
    /\ InitServing
    /\ timeLimit = [q \in QuizIds |-> NumberOf(1)]
    /\ histories = StoredHistories(NumberOf(58))

\* lines 207-218 as the GET routes see the document: with the createdAt and
\* completedAt the schema sets on insert
CreateHistoryStamped(r) ==
    /\ reqs[r].pc = "create"
    /\ histories' = histories \cup
           {[f \in DOMAIN HistoryRecord(r) \cup {"createdAt", "completedAt"} |->
                IF f \in {"createdAt", "completedAt"} THEN now ELSE HistoryRecord(r)[f]]}
    /\ reqs' = [reqs EXCEPT ![r] = [@ EXCEPT !.pc = "usage", !.historyId = r]]
    /\ UNCHANGED <<users, quizzes, now, gvars, qvars>>

\* time passes between two requests
Pass ==
    /\ now <= MaxClock
    /\ now' = now + 1
    /\ UNCHANGED <<users, quizzes, histories, reqs, gvars, qvars>>

\* line 85: QuizHistory.findById; a string that is no ObjectId makes the
\* query reject
FindHistoryById(id) == {h \in histories : id.wellFormed /\ h._id = id.n}

\* a check that asks for the role alone: any requester who is no admin is
\* let through when the record is not the requester's own
AuthorizedByRole(h, user) == ~(h.user = user /\ Roles[user] # "admin")

\* line 97, negated: the requester owns the record or is an admin
Authorized(h, user) == ~(h.user # user /\ Roles[user] # "admin")

\* a lock that also holds when no time is left
ExplanationLockAtZero(h) ==
    LET quizTimeLimitMinutes == ToNumber(timeLimit[h.quiz])
        attemptTimeTakenSeconds == ToNumber(h.timeTaken)
    IN  IF h.quiz \in QuizIds
           /\ IsFinite(quizTimeLimitMinutes) /\ IsFinite(attemptTimeTakenSeconds)
           /\ quizTimeLimitMinutes.v[1] > 0 /\ attemptTimeTakenSeconds.v[1] >= 0
           /\ quizTimeLimitMinutes.v[1] * 60 - attemptTimeTakenSeconds.v[1] >= 0
        THEN [canViewExplanations |-> FALSE,
              explanationsUnlockAt |->
                  NumberOf(((h.completedAt * 1000)
                            + (quizTimeLimitMinutes.v[1] * 60
                               - attemptTimeTakenSeconds.v[1]) * 1000) \div 1000)]
        ELSE [canViewExplanations |-> TRUE, explanationsUnlockAt |-> Null]

\* lines 105-153: the explanation lock of a record whose quiz was populated
\* (null when the quiz is gone); dates are in seconds, getTime() in ms
ExplanationLock(h) ==
    LET quizTimeLimitMinutes == ToNumber(timeLimit[h.quiz])
        attemptTimeTakenSeconds == ToNumber(h.timeTaken)
    IN  IF h.quiz \in QuizIds
           /\ IsFinite(quizTimeLimitMinutes) /\ IsFinite(attemptTimeTakenSeconds)
           /\ quizTimeLimitMinutes.v[1] > 0 /\ attemptTimeTakenSeconds.v[1] >= 0
           /\ quizTimeLimitMinutes.v[1] * 60 - attemptTimeTakenSeconds.v[1] > 0
        THEN [canViewExplanations |-> FALSE,
              explanationsUnlockAt |->
                  NumberOf(((h.completedAt * 1000)
                            + (quizTimeLimitMinutes.v[1] * 60
                               - attemptTimeTakenSeconds.v[1]) * 1000) \div 1000)]
        ELSE [canViewExplanations |-> TRUE, explanationsUnlockAt |-> Null]

\* lines 83-168: the response of GET /api/history/:id to a requester
DetailResponse(user, id) ==
    LET found == FindHistoryById(id)
        Answer(status, message, data) ==
            [route |-> "detail", user |-> user, id |-> id, at |-> now,
             status |-> status, message |-> message, data |-> data]
    IN  IF ~id.wellFormed THEN Answer(500, "Failed to fetch history details", <<>>)
        ELSE IF found = {} THEN Answer(404, "History not found", <<>>)
        ELSE LET h == CHOOSE x \in found : TRUE
             IN  IF ~Authorized(h, user) THEN Answer(403, "Not authorized", <<>>)
                 ELSE Answer(200, "", <<[history |-> h, lock |-> ExplanationLock(h)]>>)

\* a handler that stores the fields it computed
GetHistoryByIdSaving(user, id) ==
    /\ response' = DetailResponse(user, id)
    /\ listing' = NoListing
    /\ histories' =
           IF response'.data = <<>> THEN histories
           ELSE LET h == response'.data[1].history
                IN  (histories \ {h}) \cup
                        {[f \in DOMAIN h \cup {"canViewExplanations"} |->
                             IF f = "canViewExplanations"
                             THEN response'.data[1].lock.canViewExplanations
                             ELSE h[f]]}
    /\ UNCHANGED <<users, quizzes, reqs, now, gvars, timeLimit, vectorResults,
                   searchResponse>>

\* GET /api/history/:id, lines 83-168: the handler reads and answers
GetHistoryById(user, id) ==
    /\ response' = DetailResponse(user, id)
    /\ listing' = NoListing
    /\ UNCHANGED <<users, quizzes, histories, reqs, now, gvars, timeLimit,
                   vectorResults, searchResponse>>

\* the decimal digits of a query-string number
Digits == <<"0", "1", "2", "3", "4", "5", "6", "7", "8", "9">>

RECURSIVE Decimal(_)
Decimal(n) ==
    IF n < 10 THEN <<Digits[n + 1]>> ELSE Decimal(n \div 10) \o <<Digits[(n % 10) + 1]>>

DigitValue(c) == (CHOOSE i \in 1..10 : Digits[i] = c) - 1

\* parseInt of lines 13-14 on a string of decimal digits or on the default
\* (a number already)
RECURSIVE ParseDigits(_, _)
ParseDigits(s, acc) ==
    IF s = <<>> THEN acc ELSE ParseDigits(Tail(s), acc * 10 + DigitValue(Head(s)))

ParseInt(x) == IF x.k = "number" THEN x.v[1] ELSE ParseDigits(x.v, 0)

\* req.query of GET /api/history: page and limit, each given or left out
PageParams == {Undef} \cup {Str(Decimal(n)) : n \in 1..MaxPage}

LimitParams == {Undef} \cup {Str(Decimal(n)) : n \in 1..MaxLimit}

\* line 12: the defaults of the destructuring
OrDefault(x, d) == IF x = Undef THEN NumberOf(d) ELSE x

\* line 19: the orders $sort may give the matched documents: newest first,
\* documents of one createdAt in any order
RECURSIVE SortedByCreatedAtDesc(_)
SortedByCreatedAtDesc(S) ==
    IF S = {} THEN {<<>>}
    ELSE UNION {{<<h>> \o rest : rest \in SortedByCreatedAtDesc(S \ {h})} :
                   h \in {x \in S : \A y \in S : x.createdAt >= y.createdAt}}

\* lines 24-25
SkipLimit(s, skip, limit) ==
    [i \in 1..(IF Len(s) - skip < 0 THEN 0
               ELSE IF Len(s) - skip < limit THEN Len(s) - skip ELSE limit) |-> s[skip + i]]

\* lines 26-34: $lookup of the record's quiz and $unwind of the result
LookupUnwind(s) == SelectSeq(s, LAMBDA h : h.quiz \in QuizIds)

\* lines 36-48
Project(h) ==
    [_id |-> h._id, score |-> h.score, percentage |-> h.percentage, passed |-> h.passed,
     createdAt |-> h.createdAt, quiz |-> h.quiz]

\* lines 12-56 and 64-75 on one order of the sort: history and pagination
\* (the legacy collection is left out)
HistoryPage(sorted, user, page, limit) ==
    LET pageNum == ParseInt(OrDefault(page, 1))
        limitNum == ParseInt(OrDefault(limit, 10))
        skip == (pageNum - 1) * limitNum
        data == LookupUnwind(SkipLimit(sorted, skip, limitNum))
    IN  [history |-> [i \in 1..Len(data) |-> Project(data[i])],
         page |-> pageNum, limit |-> limitNum, total |-> Len(sorted)]

\* GET /api/history, lines 10-80; the pages a user fetches with one limit
\* while the collection stays as it is are kept side by side
GetHistory(user, page, limit) ==
    /\ \E sorted \in SortedByCreatedAtDesc({h \in histories : h.user = user}) :
           LET answer == HistoryPage(sorted, user, page, limit)
               fresh == [user |-> user, limit |-> answer.limit, store |-> histories,
                         pages |-> <<>>]
               kept == IF /\ listing.user = user
                          /\ listing.limit = answer.limit
                          /\ listing.store = histories
                       THEN listing ELSE fresh
           IN  listing' =
                   [kept EXCEPT !.pages =
                       [p \in DOMAIN kept.pages \cup {answer.page} |->
                           IF p = answer.page THEN answer ELSE kept.pages[p]]]
    /\ response' = NoResponse
    /\ UNCHANGED <<users, quizzes, histories, reqs, now, gvars, timeLimit,
                   vectorResults, searchResponse>>

NextDetail ==
    \/ \E user \in Users, id \in ParamIds : GetHistoryById(user, id)
    \/ Pass

SpecDetail == InitDetail /\ [][NextDetail]_vars

NextList ==
    \E user \in Users, page \in PageParams, limit \in LimitParams :
        GetHistory(user, page, limit)

SpecList == InitList /\ [][NextList]_vars

\* the two GET routes next to the steps of one submit
NextReadWrite ==
    \/ \E user \in Users, id \in ParamIds : GetHistoryById(user, id)
    \/ \E user \in Users, page \in PageParams, limit \in LimitParams :
           GetHistory(user, page, limit)
    \/ StartSeq(1)
    \/ FindQuiz(1)
    \/ CreateHistoryStamped(1)
    \/ IncrementUsage(1)
    \/ SavePoints(1)
    \/ SaveQuiz(1)
    \/ Catch(1)

SpecReadWrite == InitReadWrite /\ [][NextReadWrite]_vars

\* ------------------------------------------------------ /api/search routes
\* the quizzes collection as the search routes read it, in natural order;
\* matches: the query's regex matches title, description, tags or category
SearchQuiz(id, status, isPublic, matches) ==
    [_id |-> id, status |-> status, isPublic |-> isPublic, matches |-> matches]

Catalogue ==
    <<SearchQuiz("a", "published", TRUE, TRUE),
      SearchQuiz("b", "published", TRUE, FALSE),
      SearchQuiz("c", "published", FALSE, TRUE),
      SearchQuiz("d", "draft", TRUE, TRUE)>>

CatalogueIds == {Catalogue[i]._id : i \in 1..Len(Catalogue)}

\* similarities in tenths, weights in tenths, scores in hundredths
Similarities == {5, 9}

\* what embeddingService.findSimilarQuizzes can yield: entries quizId and
\* similarity, the quizIds all ObjectIds or all strings
VectorEntries(rep) ==
    {[quizId |-> [rep |-> rep, id |-> id], similarity |-> sim] :
        id \in CatalogueIds, sim \in Similarities}

VectorPool ==
    SeqsUpTo(VectorEntries("ObjectId"), MaxVector) \cup SeqsUpTo(VectorEntries("string"), MaxVector)

\* req.body.query / req.query.query: left out, too short once trimmed, or a query
QueryPool == {Undef, Str(<<" ", "a", "b", " ">>), Str(<<"a", "b", "c">>)}

\* lines 74, 167: !query || query.trim().length < 3
BadQuery(query) == query = Undef \/ Len(Trim(query.v)) < 3

\* String(r.quizId), quiz._id.toString()
IdString(quizId) == quizId.id

\* r.quizId !== req.params.id: an ObjectId is never identical to a string
StrictlyUnequal(quizId, param) == quizId.rep # "string" \/ quizId.id # param

\* the first n entries of a sequence: .limit(n), .slice(0, n)
Take(s, n) == [i \in 1..(IF Len(s) < n THEN Len(s) ELSE n) |-> s[i]]

\* Quiz.find({ _id: { $in: ids }, status: 'published' }) in natural order,
\* with isPublic: true where the filter has it
FindPublished(ids, publicOnly) ==
    SelectSeq(Catalogue, LAMBDA quiz : /\ quiz._id \in ids
                                       /\ quiz.status = "published"
                                       /\ publicOnly => quiz.isPublic)

\* lines 86-97 and 178-189: the text search
TextSearch(limitNum) ==
    Take(SelectSeq(Catalogue, LAMBDA quiz : quiz.matches /\ quiz.status = "published"),
         limitNum)

\* lines 100-109: combinedMap after the vector results
RECURSIVE AddVectorResults(_, _, _)
AddVectorResults(map, results, vectorWeight) ==
    IF results = <<>> THEN map
    ELSE AddVectorResults(
             [key \in DOMAIN map \cup {IdString(Head(results).quizId)} |->
                 IF key = IdString(Head(results).quizId)
                 THEN Head(results).similarity * vectorWeight
                 ELSE map[key]],
             Tail(results), vectorWeight)

\* lines 112-124: combinedMap after the text results
RECURSIVE AddTextResults(_, _, _)
AddTextResults(map, results, textWeight) ==
    IF results = <<>> THEN map
    ELSE AddTextResults(
             [key \in DOMAIN map \cup {Head(results)._id} |->
                 IF key = Head(results)._id
                 THEN (IF key \in DOMAIN map THEN map[key] ELSE 0) + textWeight * 10
                 ELSE map[key]],
             Tail(results), textWeight)

\* a sort that puts the lowest score first
RECURSIVE SortByScoreAsc(_)
SortByScoreAsc(s) ==
    IF s = <<>> THEN <<>>
    ELSE LET rest == SortByScoreAsc(Tail(s))
             before == SelectSeq(rest, LAMBDA x : x.score < Head(s).score)
             after == SelectSeq(rest, LAMBDA x : x.score >= Head(s).score)
         IN  before \o <<Head(s)>> \o after

\* Array.prototype.sort with (a, b) => b.score - a.score: stable, highest first
RECURSIVE SortByScoreDesc(_)
SortByScoreDesc(s) ==
    IF s = <<>> THEN <<>>
    ELSE LET rest == SortByScoreDesc(Tail(s))
             before == SelectSeq(rest, LAMBDA x : x.score > Head(s).score)
             after == SelectSeq(rest, LAMBDA x : x.score <= Head(s).score)
         IN  before \o <<Head(s)>> \o after

EmptyMap == [key \in {} |-> 0]

\* lines 99-139: merge, fetch the published quizzes of the map, score, sort, cut
HybridQuizzes(results, limitNum, vectorWeight, textWeight) ==
    LET combinedMap == AddTextResults(AddVectorResults(EmptyMap, results, vectorWeight),
                                      TextSearch(limitNum), textWeight)
        found == FindPublished(DOMAIN combinedMap, FALSE)
    IN  Take(SortByScoreDesc([i \in 1..Len(found) |->
                                 [_id |-> found[i]._id, score |-> combinedMap[found[i]._id]]]),
             limitNum)

\* req.body of POST /api/search/hybrid: the weights, given or left out
WeightParams == {<<Undef, Undef>>, <<NumberOf(3), NumberOf(7)>>}

\* a search response: the request, the status and, of each returned quiz, its
\* id and its combinedScore or similarity
SearchAnswer(request, status, searchMethod, found) ==
    [request |-> request, route |-> request.route, status |-> status,
     searchMethod |-> searchMethod, quizzes |-> found]

\* POST /api/search/hybrid, lines 72-153
Hybrid(query, limit, weights) ==
    /\ searchResponse = NoResponse
    /\ LET limitNum == ParseInt(OrDefault(limit, 15))
           vectorWeight == OrDefault(weights[1], 7).v[1]
           textWeight == OrDefault(weights[2], 3).v[1]
           request == [route |-> "hybrid", query |-> query, limit |-> limitNum,
                       vectorWeight |-> vectorWeight, textWeight |-> textWeight]
       IN  searchResponse' =
               IF BadQuery(query) THEN SearchAnswer(request, 400, "none", <<>>)
               ELSE SearchAnswer(request, 200, "hybrid",
                                 HybridQuizzes(vectorResults, limitNum, vectorWeight,
                                               textWeight))
    /\ UNCHANGED <<users, quizzes, histories, reqs, now, gvars, timeLimit, response,
                   listing, vectorResults>>

\* lines 207-213: r.similarity of the first result with the quiz's id
SimilarityOf(results, id) ==
    results[CHOOSE i \in 1..Len(results) :
                /\ IdString(results[i].quizId) = id
                /\ \A j \in 1..(i - 1) : IdString(results[j].quizId) # id].similarity

\* lines 177-189: the fallback's text search
FallbackQuizzes(limitNum) ==
    [i \in 1..Len(TextSearch(limitNum)) |-> [_id |-> TextSearch(limitNum)[i]._id, score |-> 0]]

\* lines 201-213: the quizzes of the vector results, published and public,
\* by similarity
VectorQuizzes(results) ==
    LET found == FindPublished({IdString(results[i].quizId) : i \in 1..Len(results)}, TRUE)
    IN  SortByScoreDesc([i \in 1..Len(found) |->
                            [_id |-> found[i]._id,
                             score |-> SimilarityOf(results, found[i]._id)]])

\* GET /api/search/similar, lines 163-224
Similar(query, limit) ==
    /\ searchResponse = NoResponse
    /\ LET limitNum == ParseInt(OrDefault(limit, 10))
           request == [route |-> "similar", query |-> query, limit |-> limitNum]
       IN  searchResponse' =
               IF BadQuery(query) THEN SearchAnswer(request, 400, "none", <<>>)
               ELSE IF Len(vectorResults) = 0
               THEN SearchAnswer(request, 200, "fallback", FallbackQuizzes(limitNum))
               ELSE SearchAnswer(request, 200, "vector", VectorQuizzes(vectorResults))
    /\ UNCHANGED <<users, quizzes, histories, reqs, now, gvars, timeLimit, response,
                   listing, vectorResults>>

\* req.params.id of GET /api/search/quiz/:id/similar: a quiz's id or an id
\* that names none
QuizParamIds == CatalogueIds \cup {"z"}

\* GET /api/search/quiz/:id/similar, lines 234-269
SimilarToQuiz(id) ==
    /\ searchResponse = NoResponse
    /\ LET request == [route |-> "quizSimilar", id |-> id]
           filteredResults ==
               Take(SelectSeq(vectorResults, LAMBDA r : StrictlyUnequal(r.quizId, id)), 10)
           found == FindPublished({IdString(filteredResults[i].quizId) :
                                       i \in 1..Len(filteredResults)}, TRUE)
       IN  searchResponse' =
               IF id \notin CatalogueIds THEN SearchAnswer(request, 404, "none", <<>>)
               ELSE SearchAnswer(request, 200, "vector",
                                 [i \in 1..Len(found) |-> [_id |-> found[i]._id, score |-> 0]])
    /\ UNCHANGED <<users, quizzes, histories, reqs, now, gvars, timeLimit, response,
                   listing, vectorResults>>

NextSearch ==
    \/ \E query \in QueryPool, limit \in LimitParams, weights \in WeightParams :
           Hybrid(query, limit, weights)
    \/ \E query \in QueryPool, limit \in LimitParams : Similar(query, limit)
    \/ \E id \in QuizParamIds : SimilarToQuiz(id)

\* one search request on every result of the similarity search
InitSearch ==
    /\ InitStore
    /\ InitGrading
    /\ timeLimit = [q \in QuizIds |-> NumberOf(1)]
    /\ response = NoResponse
    /\ listing = NoListing
    /\ vectorResults \in VectorPool
    /\ searchResponse = NoResponse

SpecSearch == InitSearch /\ [][NextSearch]_vars

\* ----------------------------------------------------------------- claims
HistoryOf(r) == {h \in histories : h._id = r}

HistoriesOfQuiz(q) == {h \in histories : h.quiz = q}

HistoriesOfUser(u) == {h \in histories : h.user = u}

Finished(r) == reqs[r].pc \in {"done", "failed", "notfound"}

RECURSIVE SumPercentage(_)
SumPercentage(S) ==
    IF S = {} THEN Rat(0, 1)
    ELSE LET h == CHOOSE x \in S : TRUE
         IN  RatAdd(h.percentage, SumPercentage(S \ {h}))

MeanPercentage(S) ==
    IF S = {} THEN Rat(0, 1) ELSE RatDivInt(SumPercentage(S), Cardinality(S))

RECURSIVE SumScore(_)
SumScore(S) ==
    IF S = {} THEN 0
    ELSE LET h == CHOOSE x \in S : TRUE
         IN  h.score + SumScore(S \ {h})

InitUsers == [u \in Users |-> [points |-> 0, quizzesTaken |-> 0, lastQuizDate |-> 0]]

InitQuizzes == [q \in QuizIds |-> [totalAttempts |-> 0, averageScore |-> Rat(0, 1)]]

\* C1: once a submit has answered with a failure, no history record of that
\* submission is stored, and (no other request having run) the users' stats
\* and the quizzes' analytics are what they were before the call.
C1_FailedSubmitRolledBack ==
    \A r \in Requests :
        (reqs[r].pc = "failed") =>
            /\ HistoryOf(r) = {}
            /\ (\A o \in Requests \ {r} : reqs[o].pc = "idle") =>
                   (users = InitUsers /\ quizzes = InitQuizzes)

\* C2: in every state a reader can observe, the history records of a quiz
\* number its totalAttempts and the history records of a user number the
\* user's quizzesTaken: the three writes of a submission are visible together.
C2_HistoryIffStats ==
    /\ \A q \in QuizIds : Cardinality(HistoriesOfQuiz(q)) = quizzes[q].totalAttempts
    /\ \A u \in Users : Cardinality(HistoriesOfUser(u)) = users[u].quizzesTaken

\* C3: when every submit that was made has succeeded, each quiz's
\* totalAttempts is the number of submissions on it and its averageScore is
\* the arithmetic mean of their percentages, under every interleaving.
C3_ConcurrentAnalyticsExact ==
    (\A r \in Requests : reqs[r].pc \in {"idle", "done"}) =>
        \A q \in QuizIds :
            /\ quizzes[q].totalAttempts =
                   Cardinality({r \in Requests : reqs[r].pc = "done" /\ reqs[r].quizId = q})
            /\ quizzes[q].averageScore = MeanPercentage(HistoriesOfQuiz(q))

\* C4: when every submit that was made has succeeded, each user's points are
\* the sum of the scores of the user's history records, under every
\* interleaving.
C4_ConcurrentPointsExact ==
    (\A r \in Requests : reqs[r].pc \in {"idle", "done"}) =>
        \A u \in Users : users[u].points = SumScore(HistoriesOfUser(u))

\* C5: with requests served one at a time, the steps of a submit change the
\* submitting user's stats by exactly quizzesTaken + 1, lastQuizDate = the
\* current time and points + score, and leave every other user's stats and
\* every other quiz's analytics as they were.
C5_SubmitEffect ==
    [][\A r \in Requests :
          LET u == reqs[r].user
              others == \A o \in Users \ {u} : users'[o] = users[o]
          IN  /\ (reqs[r].pc = "usage" /\ reqs'[r].pc = "points") =>
                     /\ users'[u] = [users[u] EXCEPT !.quizzesTaken = @ + 1,
                                                     !.lastQuizDate = now]
                     /\ others /\ quizzes' = quizzes
              /\ (reqs[r].pc = "points" /\ reqs'[r].pc = "analytics") =>
                     /\ users'[u] = [users[u] EXCEPT !.points = @ + reqs[r].grade.score]
                     /\ others /\ quizzes' = quizzes
              /\ (reqs[r].pc = "analytics" /\ reqs'[r].pc = "done") =>
                     /\ users' = users
                     /\ \A q \in QuizIds \ {reqs[r].quizId} : quizzes'[q] = quizzes[q]
              /\ (reqs[r].pc \in {"idle", "find", "create"} /\ reqs'[r].pc # reqs[r].pc) =>
                     (users' = users /\ quizzes' = quizzes)
      ]_vars

C5_Witness ==
    \E r \in Requests :
        /\ reqs[r].pc = "done"
        /\ \E h \in HistoryOf(r) :
               /\ h.score > 0
               /\ users[h.user].points > h.score
               /\ users[h.user].quizzesTaken = 2
               /\ users[h.user].lastQuizDate = 2

OnlyStringsOrMissing(answers) ==
    answers.k = "array" =>
        \A i \in 1..Len(answers.v) : answers.v[i].k \in {"string", "undefined", "null"}

\* C7: for a quiz with at least one question and an answer set that is absent,
\* short, or holds undefined/null entries, grading completes without raising
\* and grades every question.
C7_GradeNeverRaisesOnMissing ==
    (gpc = "graded" /\ Len(gquiz.questions) >= 1 /\ OnlyStringsOrMissing(ganswers)) =>
        /\ ~gresult.threw
        /\ Len(gresult.detailedAnswers) = Len(gquiz.questions)

C7_Witness ==
    /\ gpc = "graded"
    /\ ~gresult.threw
    /\ \E i \in 1..Len(gquiz.questions) :
           /\ gquiz.questions[i].type = "short-answer"
           /\ AnswerAt(ganswers, i) = Undef
           /\ ganswers.k = "array"
           /\ i <= Len(ganswers.v)

\* C8: every question position that has no candidate answer is graded
\* incorrect with no points earned, whatever the question holds.
C8_MissingAnswerIncorrect ==
    (gpc = "graded" /\ ~gresult.threw) =>
        \A i \in 1..Len(gquiz.questions) :
            (AnswerAt(ganswers, i) = Undef) =>
                /\ ~gresult.detailedAnswers[i].isCorrect
                /\ gresult.detailedAnswers[i].pointsEarned = 0

\* C9: a submit on a quiz without questions is refused as invalid: it never
\* holds a NaN percentage, stores no history record and answers neither 201
\* nor 500.
C9_EmptyQuizRejected ==
    \A r \in Requests :
        (reqs[r].quizId \in QuizIds /\ QuizDefs[reqs[r].quizId].questions = <<>>) =>
            /\ ~IsNaN(reqs[r].grade.percentage)
            /\ HistoryOf(r) = {}
            /\ reqs[r].status \notin {201, 500}
            /\ quizzes[reqs[r].quizId] = InitQuizzes[reqs[r].quizId]

\* C10: with requests served one at a time, the successful analytics write of
\* a submit with percentage p on a quiz at (n, a) leaves it at
\* (n + 1, (a * n + p) / (n + 1)); and when every submit made has succeeded,
\* each quiz's averageScore is the mean of its submissions' percentages.
C10_RunningMean ==
    /\ [][\A r \in Requests :
            (reqs[r].pc = "analytics" /\ reqs'[r].pc = "done") =>
                LET q == reqs[r].quizId
                    n == quizzes[q].totalAttempts
                    a == quizzes[q].averageScore
                    p == reqs[r].grade.percentage
                IN  /\ quizzes'[q].totalAttempts = n + 1
                    /\ quizzes'[q].averageScore =
                           RatDivInt(RatAdd(RatMulInt(a, n), p), n + 1)]_vars
    /\ []((\A r \in Requests : reqs[r].pc \in {"idle", "done"}) =>
             \A q \in QuizIds :
                 /\ quizzes[q].totalAttempts = Cardinality(HistoriesOfQuiz(q))
                 /\ quizzes[q].averageScore = MeanPercentage(HistoriesOfQuiz(q)))

C10_Witness ==
    /\ \A r \in Requests : reqs[r].pc \in {"idle", "done"}
    /\ quizzes.q1.totalAttempts = 2
    /\ quizzes.q1.averageScore = Rat(75, 1)


Graded == gpc = "graded" /\ ~gresult.threw

Positions == 1..Len(gquiz.questions)

CorrectPositions == {i \in Positions : gresult.detailedAnswers[i].isCorrect}

RECURSIVE SumOver(_, _)
SumOver(f, S) ==
    IF S = {} THEN 0
    ELSE LET i == CHOOSE x \in S : TRUE
         IN  f[i] + SumOver(f, S \ {i})

\* C11: the score is the sum of the points of the questions graded correct
\* and the sum of pointsEarned over the breakdown, where pointsEarned is the
\* question's points if isCorrect and 0 otherwise.
C11_ScoreIsSumOfPoints ==
    Graded =>
        /\ Len(gresult.detailedAnswers) = Len(gquiz.questions)
        /\ \A i \in Positions :
               gresult.detailedAnswers[i].pointsEarned =
                   IF gresult.detailedAnswers[i].isCorrect THEN gquiz.questions[i].points ELSE 0
        /\ gresult.score =
               SumOver([i \in Positions |-> gquiz.questions[i].points], CorrectPositions)
        /\ gresult.score =
               SumOver([i \in Positions |-> gresult.detailedAnswers[i].pointsEarned], Positions)

C11_Witness ==
    /\ Graded
    /\ Len(gquiz.questions) = 2
    /\ gquiz.questions[1].points # gquiz.questions[2].points
    /\ Cardinality(CorrectPositions) = 1
    /\ gresult.score > 0

ExampleQuiz == [questions |-> <<QMcq, QShort>>, passingScore |-> 60]

ExampleAnswers == Array(<<Str(<<"b">>), Str(<<"c">>)>>)

Stripped(s) ==
    LET inked == {i \in 1..Len(s) : s[i] # " "}
    IN  IF inked = {} THEN <<>>
        ELSE SubSeq(s, CHOOSE i \in inked : \A j \in inked : i <= j,
                       CHOOSE i \in inked : \A j \in inked : i >= j)

Folded(s) == [i \in 1..Len(s) |-> IF s[i] = "P" THEN "p" ELSE IF s[i] = "T" THEN "t" ELSE s[i]]

Paris == <<"P", "a", "r", "i", "s">>

ParisTyped == <<" ", "p", "a", "r", "i", "s", " ">>

\* C13: a question that is neither mcq nor true-false, answered with a string,
\* is graded correct exactly when the answer, lower-cased and stripped of
\* surrounding spaces, equals the lower-cased stripped correctAnswer;
\* correctAnswer "Paris" with answer " paris " is correct.
C13_ShortAnswerFolded ==
    /\ Graded =>
           \A i \in Positions :
               LET q == gquiz.questions[i]
                   a == AnswerAt(ganswers, i)
               IN  (q.type \notin {"mcq", "true-false"} /\ a.k = "string"
                        /\ q.correctAnswer.k = "string") =>
                       (gresult.detailedAnswers[i].isCorrect <=>
                            Stripped(Folded(a.v)) = Stripped(Folded(q.correctAnswer.v)))
    /\ gpc = "graded" =>
           IsCorrect(Question("short-answer", <<>>, Str(Paris), 1), Str(ParisTyped))
               = [threw |-> FALSE, isCorrect |-> TRUE]

C13_Witness ==
    /\ Graded
    /\ Len(gquiz.questions) = 2
    /\ gquiz.questions[1] = QShort
    /\ AnswerAt(ganswers, 1) = Str(<<" ", "p", " ">>)
    /\ gresult.detailedAnswers[1].isCorrect
    /\ gquiz.questions[2] = QOther
    /\ AnswerAt(ganswers, 2) = Str(<<"b">>)
    /\ ~gresult.detailedAnswers[2].isCorrect

\* C14: an mcq question that was answered is graded correct exactly when the
\* answer is the text of the first option, in option order, whose isCorrect
\* flag is set; the text of a later flagged option or of an unflagged option
\* is incorrect.
C14_McqFirstFlaggedOption ==
    Graded =>
        \A i \in Positions :
            LET q == gquiz.questions[i]
                a == AnswerAt(ganswers, i)
            IN  (q.type = "mcq" /\ a # Undef) =>
                    (gresult.detailedAnswers[i].isCorrect <=>
                         \E j \in 1..Len(q.options) :
                             /\ q.options[j].isCorrect
                             /\ \A k \in 1..(j - 1) : ~q.options[k].isCorrect
                             /\ a = Str(q.options[j].text))

C14_Witness ==
    /\ Graded
    /\ gquiz.questions = <<QMcq, QMcq>>
    /\ ganswers = Array(<<Str(<<"b">>), Str(<<"P">>)>>)
    /\ gresult.detailedAnswers[1].isCorrect
    /\ ~gresult.detailedAnswers[2].isCorrect

\* C15: a true-false question is graded correct exactly when the answer is
\* identical to correctAnswer: an answer that differs from it only in case or
\* in surrounding spaces is incorrect.
C15_TrueFalseExact ==
    Graded =>
        \A i \in Positions :
            LET q == gquiz.questions[i]
                a == AnswerAt(ganswers, i)
            IN  (q.type = "true-false") =>
                    /\ gresult.detailedAnswers[i].isCorrect <=>
                           (a.k = q.correctAnswer.k /\ a.v = q.correctAnswer.v)
                    /\ (a.k = "string" /\ q.correctAnswer.k = "string"
                            /\ a.v # q.correctAnswer.v
                            /\ Stripped(Folded(a.v)) = Stripped(Folded(q.correctAnswer.v))) =>
                           ~gresult.detailedAnswers[i].isCorrect

C15_Witness ==
    /\ Graded
    /\ gquiz.questions = <<QTrueFalse, QTrueFalse>>
    /\ ganswers = Array(<<Str(<<"P">>), Str(<<" ", "p", " ">>)>>)
    /\ gresult.detailedAnswers[1].isCorrect
    /\ ~gresult.detailedAnswers[2].isCorrect


\* C16: for a quiz with at least one question and passingScore <= 100, an
\* answer set whose every question is graded correct gives percentage 100
\* and passed true.
C16_AllCorrectPasses ==
    (Graded /\ Len(gquiz.questions) >= 1 /\ gquiz.passingScore <= 100
        /\ CorrectPositions = Positions) =>
        /\ gresult.percentage = [num |-> 100, den |-> 1]
        /\ gresult.passed = TRUE

C16_Witness ==
    /\ Graded
    /\ Len(gquiz.questions) = 2
    /\ gquiz.passingScore = 100
    /\ CorrectPositions = Positions
    /\ ganswers.k = "array"
    /\ \A i \in Positions : AnswerAt(ganswers, i).k = "string"

\* C17: for every quiz, an answer set whose every question is graded
\* incorrect gives score 0 and pointsEarned 0 at every position.
C17_AllIncorrectScoresZero ==
    (Graded /\ CorrectPositions = {}) =>
        /\ gresult.score = 0
        /\ \A i \in Positions : gresult.detailedAnswers[i].pointsEarned = 0

C17_Witness ==
    /\ Graded
    /\ Len(gquiz.questions) = 2
    /\ \A i \in Positions : gquiz.questions[i].points > 0
    /\ CorrectPositions = {}
    /\ gresult.score = 0


HoldsGrade(r) == reqs[r].pc \in {"create", "usage", "points", "analytics"}

\* the answers a grading read, position by position
AnswersRead(r) ==
    [i \in 1..Len(reqs[r].grade.detailedAnswers) |-> reqs[r].grade.detailedAnswers[i].userAnswer]

\* C18: the result of a grading is determined by the quiz and the answers
\* alone: it is the grading of that quiz on one of the request bodies whatever
\* is stored and whatever other requests do, two gradings of the same quiz
\* on the same answers agree on score, percentage, passed and breakdown, and
\* the step that grades changes no stored document.
C18_GradingPure ==
    /\ [](\A r \in Requests :
            HoldsGrade(r) =>
                /\ \E answers \in BodyAnswers :
                       reqs[r].grade = Grade(QuizDefs[reqs[r].quizId], answers)
                /\ \A o \in Requests :
                       (HoldsGrade(o) /\ reqs[o].quizId = reqs[r].quizId
                            /\ AnswersRead(o) = AnswersRead(r)) =>
                           reqs[o].grade = reqs[r].grade)
    /\ [][\A r \in Requests :
            (reqs[r].pc = "find" /\ reqs'[r].pc # "find") =>
                UNCHANGED <<users, quizzes, histories>>]_vars

C18_Witness ==
    \E r, o \in Requests :
        /\ r # o
        /\ HoldsGrade(r) /\ HoldsGrade(o)
        /\ reqs[r].quizId = "q1" /\ reqs[o].quizId = "q1"
        /\ reqs[r].user = reqs[o].user
        /\ reqs[r].grade = reqs[o].grade
        /\ reqs[r].grade.score > 0
        /\ reqs[r].userPoints # reqs[o].userPoints


\* what the caller receives
Response(r) == <<reqs[r].status, reqs[r].message, reqs[r].data>>

\* C19: every failed submit answers 500 with the one generic message and no
\* data, whichever write rejected: any two failed submits have identical
\* responses.
C19_GenericFailure ==
    \A r \in Requests :
        (reqs[r].pc = "failed") =>
            /\ Response(r) = <<500, "Failed to save history", {}>>
            /\ \A o \in Requests : (reqs[o].pc = "failed") => Response(o) = Response(r)

C19_Witness ==
    \E r, o \in Requests :
        /\ reqs[r].pc = "failed" /\ reqs[o].pc = "failed"
        /\ HistoryOf(r) # {}
        /\ users[reqs[r].user].quizzesTaken > 0
        /\ HistoryOf(o) = {}
        /\ Response(r) = Response(o)

\* C20: every successful submit answers with historyId, score, percentage and
\* passed, the last three being those of the stored history record that
\* historyId names.
C20_ResultReturned ==
    \A r \in Requests :
        (reqs[r].pc = "done") =>
            /\ \E h \in histories : h._id = reqs[r].historyId
            /\ {"historyId", "score", "percentage", "passed"} \subseteq reqs[r].data

\* the position of a request in its handler: every awaited call is one step
Rank(pc) ==
    CASE pc = "idle" -> 0
      [] pc = "find" -> 1
      [] pc = "create" -> 2
      [] pc = "usage" -> 3
      [] pc = "points" -> 4
      [] pc = "analytics" -> 5
      [] OTHER -> 6

\* C21: a submit goes through the history insert, the user-stats update and
\* the quiz-analytics update at most once each and never goes back to a write
\* it has left (no retry); every step that changes the history collection adds
\* the one record of the request that was at its insert; a request holds at
\* most one record, and exactly one when it has answered 201.
C21_WritesAtMostOnce ==
    /\ [](\A r \in Requests :
            /\ Cardinality(HistoryOf(r)) <= 1
            /\ (reqs[r].pc = "done") => Cardinality(HistoryOf(r)) = 1)
    /\ [][/\ \A r \in Requests :
                 (reqs'[r].pc # reqs[r].pc) => Rank(reqs'[r].pc) > Rank(reqs[r].pc)
          /\ (histories' # histories) =>
                 \E r \in Requests :
                     /\ reqs[r].pc = "create" /\ reqs'[r].pc = "usage"
                     /\ HistoryOf(r) = {}
                     /\ histories' = histories \cup {HistoryRecord(r)}]_vars

C21_Witness ==
    \E r, o \in Requests :
        /\ reqs[r].pc = "done" /\ Cardinality(HistoryOf(r)) = 1
        /\ reqs[o].pc = "failed" /\ Cardinality(HistoryOf(o)) = 1

\* C23: every submit that has entered its handler eventually answers (201,
\* 404 or 500), also when a storage call never answers.
C23_SubmitReturns ==
    \A r \in Requests : (reqs[r].pc = "find") ~> Finished(r)

ReadTimeFields == {"canViewExplanations", "explanationsUnlockAt"}

\* C22: a stored history record is never modified or deleted: every step (of
\* a submit, of GET /api/history, of GET /api/history/:id) keeps every stored
\* record as it is; a step that answers a GET leaves all records, users and
\* quizzes unchanged; canViewExplanations and explanationsUnlockAt are in no
\* stored record, only in the response of GET /api/history/:id.
C22_RecordsImmutable ==
    /\ [](\A h \in histories : DOMAIN h \cap ReadTimeFields = {})
    /\ [][/\ \A h \in histories : h \in histories'
          /\ (response' # response \/ listing' # listing) =>
                 UNCHANGED <<users, quizzes, histories, timeLimit>>]_vars

C22_Witness ==
    /\ reqs[1].pc = "done"
    /\ Cardinality(histories) = 5
    /\ response.route = "detail"
    /\ response.status = 200
    /\ response.data[1].history._id = 101
    /\ response.data[1].lock.canViewExplanations = FALSE
    /\ response.data[1].history \in histories

\* the records of the user a listing is of, and the number of pages they fill
ListedRecords == {h \in histories : h.user = listing.user}

LastPage == (Cardinality(ListedRecords) + listing.limit - 1) \div listing.limit

\* C24: of the pages a user has fetched from GET /api/history with one limit
\* (page >= 1, limit >= 1, no write since the first of them), each reports as
\* total the number of the user's records, holds at most limit records, all
\* of that user and newest first; and once pages 1..ceil(total/limit) are
\* fetched, each of the user's records is on exactly one of them, also a
\* record whose quiz is gone.
C24_PagesPartition ==
    (listing # NoListing /\ listing.store = histories) =>
        /\ \A p \in DOMAIN listing.pages :
               LET a == listing.pages[p]
               IN  /\ a.total = Cardinality(ListedRecords)
                   /\ Len(a.history) <= listing.limit
                   /\ \A i \in 1..Len(a.history) :
                          \E h \in ListedRecords : h._id = a.history[i]._id
                   /\ \A i, j \in 1..Len(a.history) :
                          i < j => a.history[i].createdAt >= a.history[j].createdAt
        /\ (1..LastPage \subseteq DOMAIN listing.pages) =>
               \A h \in ListedRecords :
                   Cardinality({<<p, i>> \in (1..LastPage) \X (1..listing.limit) :
                                   /\ i <= Len(listing.pages[p].history)
                                   /\ listing.pages[p].history[i]._id = h._id}) = 1

\* the response of a GET /api/history/:id that carried a record
Disclosed == response.route = "detail" /\ response.data # <<>>

\* C25: when GET /api/history/:id answers with a record that has an
\* explanationsUnlockAt, canViewExplanations is true if the request was
\* served at or after that time and false if it was served before it.
C25_UnlockByTime ==
    (Disclosed /\ response.data[1].lock.explanationsUnlockAt # Null) =>
        (response.data[1].lock.canViewExplanations
            <=> response.at >= response.data[1].lock.explanationsUnlockAt.v[1])

\* the records a request's id names
Named(id) == {h \in histories : id.wellFormed /\ h._id = id.n}

MayRead(user, h) == h.user = user \/ Roles[user] = "admin"

\* C28: GET /api/history/:id carries a record only in a 200 response to the
\* record's owner or to an admin, and then it is the record named; every
\* other requester of an existing record gets 403 without data; an id that
\* names no record gets 404 without data (a string that is no id at all gets
\* 500 without data).
C28_OwnerOrAdminOnly ==
    (response.route = "detail") =>
        /\ Disclosed =>
               /\ response.status = 200
               /\ response.data[1].history \in Named(response.id)
               /\ MayRead(response.user, response.data[1].history)
        /\ \A h \in Named(response.id) :
               IF MayRead(response.user, h)
               THEN response.status = 200 /\ response.data[1].history = h
               ELSE response.status = 403 /\ response.data = <<>>
        /\ (response.id.wellFormed /\ Named(response.id) = {}) =>
               (response.status = 404 /\ response.data = <<>>)
        /\ ~response.id.wellFormed => (response.status = 500 /\ response.data = <<>>)

C28_Witness ==
    /\ response.route = "detail"
    /\ response.user = "u1"
    /\ response.id = ObjectId(104)
    /\ response.status = 403
    /\ response.data = <<>>

\* the numbers a stored field reads as (null reads as 0; an absent field and
\* NaN read as no finite number)
FiniteValues(x) ==
    IF x = Null THEN {0}
    ELSE IF x.k = "number" /\ x.v # <<>> THEN {x.v[1]}
    ELSE {}

\* the seconds left of the time limit when the attempt was handed in
SecondsLeft(h) ==
    IF h.quiz \notin QuizIds THEN {}
    ELSE {l * 60 - t : l \in {x \in FiniteValues(timeLimit[h.quiz]) : x > 0},
                       t \in {x \in FiniteValues(h.timeTaken) : x >= 0}}

\* C29: in a response of GET /api/history/:id that carries a record,
\* canViewExplanations is false exactly when the quiz is present, its
\* timeLimit reads as a finite number > 0, timeTaken reads as a finite
\* number >= 0 and timeLimit*60 - timeTaken > 0, and then
\* explanationsUnlockAt is completedAt plus these seconds; otherwise
\* canViewExplanations is true and explanationsUnlockAt is null.
C29_LockExactly ==
    Disclosed =>
        LET h == response.data[1].history
            lock == response.data[1].lock
        IN  IF \E left \in SecondsLeft(h) : left > 0
            THEN /\ lock.canViewExplanations = FALSE
                 /\ \A left \in SecondsLeft(h) :
                        lock.explanationsUnlockAt = NumberOf(h.completedAt + left)
            ELSE /\ lock.canViewExplanations = TRUE
                 /\ lock.explanationsUnlockAt = Null

C29_Witness ==
    /\ Disclosed
    /\ response.data[1].history._id = 101
    /\ response.data[1].history.timeTaken = NumberOf(58)
    /\ response.data[1].lock.canViewExplanations = FALSE
    /\ response.data[1].lock.explanationsUnlockAt = NumberOf(2)

\* the quiz of the collection with an id
QuizOf(id) == Catalogue[CHOOSE i \in 1..Len(Catalogue) : Catalogue[i]._id = id]

Answered(route) == searchResponse.route = route /\ searchResponse.status = 200

Returned == {searchResponse.quizzes[i]._id : i \in 1..Len(searchResponse.quizzes)}

\* the similarities the vector search gave a quiz
VectorSimilarities(id) ==
    {vectorResults[i].similarity :
        i \in {j \in 1..Len(vectorResults) : IdString(vectorResults[j].quizId) = id}}

\* the published quizzes the text search of a hybrid request returned
TextHits ==
    {TextSearch(searchResponse.request.limit)[i]._id :
        i \in 1..Len(TextSearch(searchResponse.request.limit))}

\* the scores the claim allows a quiz: similarity * vectorWeight for a vector
\* hit, textWeight (in hundredths) for a text hit, their sum for both
ClaimedScores(id) ==
    LET text == IF id \in TextHits THEN searchResponse.request.textWeight * 10 ELSE 0
    IN  IF VectorSimilarities(id) = {} THEN {text}
        ELSE {sim * searchResponse.request.vectorWeight + text : sim \in VectorSimilarities(id)}

HybridCandidates ==
    {id \in CatalogueIds :
        /\ QuizOf(id).status = "published"
        /\ (VectorSimilarities(id) # {} \/ id \in TextHits)}

C27_NeverItself ==
    Answered("quizSimilar") =>
        /\ searchResponse.request.id \notin Returned
        /\ Len(searchResponse.quizzes) <= 10

\* C30: every quiz in a 200 response of GET /api/search/similar is published
\* and public, on the vector path and on the fallback path.
C30_PublishedAndPublic ==
    Answered("similar") =>
        \A id \in Returned : QuizOf(id).status = "published" /\ QuizOf(id).isPublic

====
